---- MODULE Spec2Model ----
(***************************************************************************)
(* A model of pybest's noise-component selection and denoising engine      *)
(* (pybest/noise_model.py: run_noise_processing and its parallel workers)  *)
(* and of the orthogonalised single-trial GLM generator                    *)
(* (pybest/utils.py: yield_glm_results, custom_clean).                     *)
(*                                                                         *)
(* Numeric matrices are abstracted to what the properties are about: an R2 *)
(* score is a small integer, a time series is the record of the linear     *)
(* projections applied to it (which confound columns were projected out,   *)
(* in which order) and whether it was standardised.                        *)
(***************************************************************************)
EXTENDS Integers, Sequences, FiniteSets, TLC

\* ---------------------------------------------------------------- bounds
NRuns == 2       \* largest number of runs in run_idx
NUnits == 2      \* K: number of voxels / vertices
MaxComps == 2    \* largest cfg['n_comps']
MaxConf == 2     \* largest number of columns of preproc_conf
NHrf == 2        \* size of the HRF library (r2 rows of a 'kay' worker)
MaxTrials == 3   \* largest number of events of a run
MaxFrames == 2   \* largest number of frame times
MaxPred == 2     \* largest number of columns of a fitted design
NLabels == 2     \* number of distinct labels run_glm can return
MaxFiles == 2    \* largest number of files in the directory or list
MaxTime == 2     \* largest number of timepoints of a run
MaxRows == 3     \* largest number of scores in a column

Units == 1..NUnits
R2Vals == {-1, 0, 1}  \* out-of-fold R2 scores: negative, zero, positive

VARIABLES
    cfg,          \* [signalproc_type, n_comps, hrf_model]
    n_runs,       \* np.unique(ddict['run_idx']).size
    n_conf,       \* ddict['preproc_conf'].shape[1]
    nonzero,      \* [run -> [unit -> BOOLEAN]]: signal of the unit is not all zero
    pc,           \* position of run_noise_processing
    err,          \* exception that left run_noise_processing ("none" if none)
    wstate,       \* [worker -> "running" | "done" | "failed"]
    wres,         \* [worker -> R2 array returned], workers that returned
    order,        \* sequence of workers in the order they ended
    scored,       \* calls of cross_val_r2 made: [w, k, cols, units, raised]
    cleaned,      \* calls of custom_clean on a run's design: [w, run, x_runs, c_runs]
    preproc_func, \* ddict['preproc_func']: [run -> [unit -> operations applied]]
    clean_ref,    \* the array func_clean names: "none", "copy" or "preproc_func"
    r2s_list,     \* list returned by Parallel(...)
    opt,          \* ddict['opt_n_comps']: [run -> [unit -> k]]
    opt_hrf_idx,  \* ddict['opt_hrf_idx']: [unit -> HRF index]
    opt_local,    \* local variable opt_n_comps of run_noise_processing
    drun,         \* loop variable `run` of the denoising loop
    func_clean,   \* [run -> [unit -> operations applied to its series]]
    \* ---- one call of yield_glm_results(vox_idx, Y, X, conf, run, ddict, cfg)
    g_X,          \* the caller's design X: sequence of columns [name, ops]
    g_nconf,      \* conf.shape[1]
    g_opt,        \* ddict['opt_n_comps'][run, :] as integers
    g_vox,        \* vox_idx: [unit -> BOOLEAN]
    g_Yarg,       \* the caller's array Y, as the call received it
    g_Y,          \* the generator's variable Y: operations applied to the signal
    g_ks,         \* the values of np.unique(opt_n_comps) still to be looped over
    g_out,        \* the groups yielded so far: [k, vox, X, Y]
    \* ---- one call of create_design_matrix(tr, frame_times, events, hrf_model, hrf_idx)
    d_args,       \* [trial_type, n_frames, hrf_model, hrf_idx]
    d_pc,         \* position of the call
    d_iter,       \* the indices of to_iter still to be looped over
    d_dms,        \* the list dms
    d_ret,        \* the value returned
    \* ---- one call of get_param_from_glm(name, labels, results, dm, time_series, predictors)
    p_args,       \* [labels, dm_shape, time_series, predictors]
    p_pc,         \* position of the call
    p_err,        \* exception raised ("none" if none)
    p_labs,       \* the values of np.unique(labels) still to be looped over
    p_data,       \* the array data: [shape, val], <<>> before it is allocated
    p_reads,      \* the labels whose result object was read
    \* ---- one call of get_file_from_substring(filt, path, return_msg, exclude)
    f_args,       \* [filt, is_list, dir, files, return_msg, exclude]
    f_pc,         \* position of the call
    f_ret,        \* [kind, val]: what the call returned or raised
    \* ---- the rows of the signal matrix
    run_idx,      \* ddict['run_idx']: the run of every timepoint of preproc_func
    \* ---- one call of argmax_regularized(data, axis=0, percent) on one column
    a_args,       \* [data, percent]
    a_pc,         \* position of the call
    a_ret         \* the index returned

nvars == <<cfg, n_runs, n_conf, nonzero, pc, err, wstate, wres, order, scored,
           cleaned, preproc_func, clean_ref,
           r2s_list, opt, opt_hrf_idx, opt_local, drun, func_clean>>

gvars == <<g_X, g_nconf, g_opt, g_vox, g_Yarg, g_Y, g_ks, g_out>>

dvars == <<d_args, d_pc, d_iter, d_dms, d_ret>>

pvars == <<p_args, p_pc, p_err, p_labs, p_data, p_reads>>

fvars == <<f_args, f_pc, f_ret>>

svars == <<run_idx>>

avars == <<a_args, a_pc, a_ret>>

xvars == <<dvars, pvars, fvars, svars, avars>>

vars == <<nvars, gvars, xvars>>

Runs == 0..(n_runs - 1)

\* n_comps = np.arange(1, cfg['n_comps']+1)
n_comps == 1..cfg.n_comps

WithinRun == cfg.signalproc_type = "single-trial"

\* The work items handed to Parallel: runs (per-run mode), candidate counts
\* (across-runs mode).
Workers == IF WithinRun THEN Runs ELSE n_comps

\* A time series is the sequence of operations applied to it; none yet.
Raw == <<>>

\* no call of yield_glm_results is under way
\* no call of create_design_matrix is under way
DmIdle ==
    /\ d_args = <<>> /\ d_pc = "idle" /\ d_iter = <<>> /\ d_dms = <<>>
    /\ d_ret = <<>>

\* no call of get_param_from_glm is under way
ParamIdle ==
    /\ p_args = <<>> /\ p_pc = "idle" /\ p_err = "none" /\ p_labs = <<>>
    /\ p_data = <<>> /\ p_reads = {}

\* no call of get_file_from_substring is under way
FileIdle == f_args = <<>> /\ f_pc = "idle" /\ f_ret = <<>>

\* no call of argmax_regularized is under way
ArgmaxIdle == a_args = <<>> /\ a_pc = "idle" /\ a_ret = -1

\* no signal matrix is at hand
SkipIdle == run_idx = <<>>

OtherIdle == DmIdle /\ ParamIdle /\ FileIdle /\ ArgmaxIdle

GlmIdle ==
    /\ g_X = <<>> /\ g_nconf = 0 /\ g_opt = <<>> /\ g_vox = <<>>
    /\ g_Yarg = <<>> /\ g_Y = <<>> /\ g_ks = <<>> /\ g_out = <<>>

Init ==
    /\ GlmIdle /\ OtherIdle
    /\ cfg \in [signalproc_type : {"single-trial", "glmdenoise"},
                n_comps : 1..MaxComps,
                hrf_model : {"kay", "glover"}]
    /\ n_runs \in 1..NRuns
    \* one timepoint per run: no step below depends on their number
    /\ run_idx = [t \in 1..n_runs |-> t - 1]
    /\ n_conf \in 1..MaxConf
    /\ nonzero \in [0..(n_runs - 1) -> [Units -> BOOLEAN]]
    /\ pc = "parallel"
    /\ err = "none"
    /\ wstate = [w \in Workers |-> "running"]
    /\ wres = <<>>
    /\ order = <<>>
    /\ scored = {}
    /\ cleaned = {}
    /\ preproc_func = [r \in 0..(n_runs - 1) |-> [u \in Units |-> Raw]]
    /\ clean_ref = "none"
    /\ r2s_list = <<>>
    /\ opt = <<>>
    /\ opt_hrf_idx = <<>>
    /\ opt_local = <<>>
    /\ drun = 0
    /\ func_clean = [r \in 0..(n_runs - 1) |-> [u \in Units |-> Raw]]

\* ------------------------------------------------------- library helpers
Min(a, b) == IF a <= b THEN a ELSE b

\* ndarray.max(axis=0) of one column (a function over row indices 0..n-1)
ColMax(col) == CHOOSE m \in {col[i] : i \in DOMAIN col} :
                   \A j \in DOMAIN col : col[j] <= m

\* ndarray.argmax(axis=0) of one column: a left-to-right scan that replaces
\* the best index only on a strictly larger value (numpy returns the first
\* occurrence of the maximum).
RECURSIVE ArgmaxScan(_, _, _)
ArgmaxScan(col, i, best) ==
    IF i \notin DOMAIN col THEN best
    ELSE ArgmaxScan(col, i + 1, IF col[i] > col[best] THEN i ELSE best)

ArgmaxLast(col) ==
    CHOOSE i \in DOMAIN col : col[i] = ColMax(col)
                              /\ \A j \in DOMAIN col : col[j] = ColMax(col) => j <= i

Argmax(col) == ArgmaxScan(col, 1, 0)

\* np.unique(a): the distinct values, ascending
RECURSIVE SortedSeq(_)
SortedSeq(S) ==
    IF S = {} THEN <<>>
    ELSE LET m == CHOOSE x \in S : \A y \in S : x <= y
         IN <<m>> \o SortedSeq(S \ {m})

\* np.unique in descending order
UniqueDescending(a) ==
    LET up == SortedSeq({a[u] : u \in DOMAIN a})
    IN [i \in 1..Len(up) |-> up[Len(up) + 1 - i]]

Unique(a) == SortedSeq({a[u] : u \in DOMAIN a})

\* A confounds argument: None, or a set of confound columns.
NoConfounds == [isNone |-> TRUE, cols |-> {}]
Confounds(S) == [isNone |-> FALSE, cols |-> S]

\* conf[:, :k]: the leading k columns (a slice never reaches past the last)
Leading(k, ncols) == 1..Min(k, ncols)

\* nilearn signal.clean(ts, detrend=False, confounds=C, standardize=s): the
\* confounds are projected out first, the standardisation comes last.
SignalClean(ts, C, standardize) ==
    ts \o (IF C.isNone THEN <<>> ELSE <<[op |-> "conf", cols |-> C.cols]>>)
       \o (IF standardize THEN <<[op |-> "zscore", cols |-> {}]>> ELSE <<>>)

\* joblib's Parallel(...)(delayed(f)(x) for x in items): the list of results
\* in the order of `items`, whatever the order the calls ended in.
ParallelUnordered(items, res, ord) ==
    [i \in 0..(Len(items) - 1) |-> res[ord[i + 1]]]

ParallelResults(items, res, ord) ==
    [i \in 0..(Len(items) - 1) |-> res[items[i + 1]]]

\* the generator handed to Parallel
Items == IF WithinRun THEN [i \in 1..n_runs |-> i - 1]
         ELSE [i \in 1..cfg.n_comps |-> i]

\* --------------------------------------------- _run_parallel_within_run
\* The loop over n_comps: the candidates scored, and whether it raised.
RECURSIVE WithinRunLoop(_, _)
WithinRunLoop(n_comp, done) ==
    IF n_comp > cfg.n_comps THEN [raised |-> FALSE, done |-> done]
    ELSE IF n_comp > n_conf THEN [raised |-> TRUE, done |-> done]
    ELSE WithinRunLoop(n_comp + 1, done \cup {n_comp})

\* r2s = np.zeros(...); r2s[i, nonzero] = cross_val_r2(...): any scores for
\* the units with signal, 0 for the others.  Row i is candidate i + 1.
WithinRunR2s(run) ==
    {r2s \in [0..(cfg.n_comps - 1) -> [Units -> R2Vals]] :
        \A i \in 0..(cfg.n_comps - 1) : \A u \in Units :
            ~nonzero[run][u] => r2s[i][u] = 0}

\* an exception raised inside a worker is caught nowhere: it leaves the
\* worker, which returns nothing (`zeros` is its pre-allocated array)
WorkerSwallows(exc, zeros) == [state |-> "done", returned |-> TRUE, res |-> zeros]

WorkerRaises(exc, zeros) == [state |-> exc, returned |-> FALSE, res |-> zeros]

run_parallel_within_run(run) ==
    /\ pc = "parallel" /\ WithinRun
    /\ run \in Runs /\ wstate[run] = "running"
    /\ LET loop == WithinRunLoop(1, {})
           fed == {u \in Units : nonzero[run][u]}          \* func[:, nonzero]
           zeros == [i \in 0..(cfg.n_comps - 1) |-> [u \in Units |-> 0]]
           Call(k, raised) ==
               [w |-> run, k |-> k, cols |-> Cardinality(Leading(k, n_conf)),
                units |-> fed, raised |-> raised]
           End(e) ==
               /\ wstate' = [wstate EXCEPT ![run] = e.state]
               /\ wres' = IF e.returned THEN wres @@ (run :> e.res) ELSE wres
       IN
        \/ \* every call of cross_val_r2 returns
           /\ scored' = scored \cup {Call(k, FALSE) : k \in loop.done}
           /\ IF loop.raised
              THEN End(WorkerRaises("ValueError", zeros))
              ELSE /\ wstate' = [wstate EXCEPT ![run] = "done"]
                   /\ \E r2s \in WithinRunR2s(run) : wres' = wres @@ (run :> r2s)
        \/ \* the call of cross_val_r2 for candidate kf raises
           \E kf \in loop.done :
              /\ scored' = scored \cup
                    {Call(k, k = kf) : k \in {j \in loop.done : j <= kf}}
              /\ End(WorkerRaises("FitError", zeros))
    /\ order' = Append(order, run)
    /\ UNCHANGED <<cfg, n_runs, n_conf, nonzero, pc, err, r2s_list, opt,
                   opt_hrf_idx, opt_local, drun, func_clean,
                   gvars, xvars, cleaned, preproc_func, clean_ref>>

\* --------------------------------------------- _run_parallel_across_runs
Hrfs == IF cfg.hrf_model = "kay" THEN 0..(NHrf - 1) ELSE 0..0

\* line 196: C = ddict['preproc_conf'].iloc[:, :this_n_comp], the rows of
\* every run; the design X of line 207 holds the rows of `run`
ConfRows(run) == Runs

run_parallel_across_runs(this_n_comp) ==
    /\ pc = "parallel" /\ ~WithinRun
    /\ this_n_comp \in n_comps /\ wstate[this_n_comp] = "running"
    /\ LET C == Leading(this_n_comp, n_conf)    \* .iloc[:, :this_n_comp]
           zeros == [h \in Hrfs |-> [u \in Units |-> 0]]
           Call(raised) ==
               [w |-> this_n_comp, k |-> this_n_comp, cols |-> Cardinality(C),
                units |-> Units, raised |-> raised]              \* Y, line 220
           Clean(run) ==                                       \* line 211
               [w |-> this_n_comp, run |-> run, x_runs |-> {run},
                c_runs |-> ConfRows(run)]
           End(e) ==
               /\ wstate' = [wstate EXCEPT ![this_n_comp] = e.state]
               /\ wres' = IF e.returned THEN wres @@ (this_n_comp :> e.res)
                          ELSE wres
       IN
        \/ /\ scored' = scored \cup {Call(FALSE)}
           /\ cleaned' = cleaned \cup {Clean(run) : run \in Runs}
           /\ wstate' = [wstate EXCEPT ![this_n_comp] = "done"]
           /\ \E r2 \in [Hrfs -> [Units -> R2Vals]] :
                 wres' = wres @@ (this_n_comp :> r2)
        \/ \* custom_clean(X, Y, C, ...): X holds the rows of one run, C the
           \* rows of all runs; with several runs signal.clean may refuse them
           /\ n_runs > 1
           /\ cleaned' = cleaned \cup {Clean(0)}
           /\ End(WorkerRaises("CleanError", zeros))
           /\ UNCHANGED scored
        \/ \* the call of cross_val_r2 raises
           /\ scored' = scored \cup {Call(TRUE)}
           /\ cleaned' = cleaned \cup {Clean(run) : run \in Runs}
           /\ End(WorkerRaises("FitError", zeros))
    /\ order' = Append(order, this_n_comp)
    /\ UNCHANGED <<cfg, n_runs, n_conf, nonzero, pc, err, r2s_list, opt,
                   opt_hrf_idx, opt_local, drun, func_clean,
                   gvars, xvars, preproc_func, clean_ref>>

\* ------------------------------------------------- run_noise_processing
\* Parallel re-raises the exception of a worker that failed.
ParallelRaises ==
    /\ pc = "parallel"
    /\ \E w \in Workers :
          /\ wstate[w] \notin {"running", "done"}
          /\ err' = wstate[w]
    /\ pc' = "failed"
    /\ UNCHANGED <<cfg, n_runs, n_conf, nonzero, wstate, wres, order, scored,
                   r2s_list, opt, opt_hrf_idx, opt_local, drun, func_clean,
                   gvars, xvars, cleaned, preproc_func, clean_ref>>

AllReturned == \A w \in Workers : wstate[w] = "done"

\* lines 60-63: the optimal count of every unit of one run
SelectStrict(r2_ncomps) ==
    [u \in Units |->
        LET col == [i \in DOMAIN r2_ncomps |-> r2_ncomps[i][u]]
        IN IF ColMax(col) <= 0 THEN 0 ELSE Argmax(col) + 1]

SelectRun(r2_ncomps) ==
    [u \in Units |->
        LET col == [i \in DOMAIN r2_ncomps |-> r2_ncomps[i][u]]
            r2_max == ColMax(col)
            opt_n_comps_idx == Argmax(col)
            k == opt_n_comps_idx + 1          \* n_comps[opt_n_comps_idx]
        IN IF r2_max < 0 THEN 0 ELSE k]

\* line 115: func_clean = ddict['preproc_func'].copy(), a new array
PreallocateAlias(arr) == [ref |-> "preproc_func", data |-> arr]

Preallocate(arr) == [ref |-> "copy", data |-> arr]

\* lines 51-67 and 115: Parallel returned; the selection loop over r2s_list,
\* then the array of the denoised signal is allocated
SelectWithinRun ==
    /\ pc = "parallel" /\ WithinRun /\ AllReturned
    /\ r2s_list' = ParallelResults(Items, wres, order)
    /\ opt' = [i \in Runs |-> SelectRun(r2s_list'[i])]
    /\ opt_local' = opt'[n_runs - 1]     \* what the last iteration left
    /\ clean_ref' = Preallocate(preproc_func).ref           \* line 115
    /\ func_clean' = Preallocate(preproc_func).data
    /\ pc' = "denoise"
    /\ UNCHANGED <<cfg, n_runs, n_conf, nonzero, err, wstate, wres, order,
                   scored, opt_hrf_idx, drun,
                   gvars, xvars, cleaned, preproc_func>>

\* lines 77-92: Parallel returned; r2, r2_ncomps and r2_max are computed and
\* then `r2_ncomps.argmax(axis=0).stype(int)` raises AttributeError (an
\* ndarray has no attribute stype): lines 93-110 are never reached.
SelectAcrossRuns ==
    /\ pc = "parallel" /\ ~WithinRun /\ AllReturned
    /\ r2s_list' = ParallelResults(Items, wres, order)
    /\ pc' = "failed"
    /\ err' = "AttributeError"
    /\ UNCHANGED <<cfg, n_runs, n_conf, nonzero, wstate, wres, order, scored,
                   opt, opt_hrf_idx, opt_local, drun, func_clean,
                   gvars, xvars, cleaned, preproc_func, clean_ref>>

\* lines 121-134: the loop over np.unique(opt_n_comps) of one run; `func` is
\* the run's signal, `counts` the array the loop reads.
RECURSIVE DenoiseGroups(_, _, _, _)
DenoiseGroups(ks, func, counts, run) ==
    IF ks = <<>> THEN func
    ELSE LET this_n_comps == Head(ks)
             vox_idx == {u \in Units : counts[u] = this_n_comps /\ nonzero[run][u]}
             C == Confounds(Leading(this_n_comps, n_conf))
             func_k == [u \in Units |->
                            IF u \in vox_idx THEN SignalClean(func[u], C, FALSE)
                            ELSE func[u]]
         IN IF this_n_comps = 0
            THEN DenoiseGroups(Tail(ks), func, counts, run)
            ELSE DenoiseGroups(Tail(ks), func_k, counts, run)

\* lines 119-137: one run denoised with the counts `counts`
DenoiseRun(run, counts) ==
    LET func == [u \in Units |-> preproc_func[run][u]]   \* get_run_data: a copy
        projected == DenoiseGroups(Unique(counts), func, counts, run)
    IN [u \in Units |-> SignalClean(projected[u], NoConfounds, TRUE)]

\* the array of counts the denoising loop reads for run `run`: the local
\* variable opt_n_comps (lines 121 and 128), which the selection loop left
\* holding the counts of the last run
DenoiserCounts(run) == opt_local

\* lines 116-143: one iteration of the denoising loop
Denoise ==
    /\ pc = "denoise" /\ drun < n_runs
    /\ func_clean' = [func_clean EXCEPT
                         ![drun] = DenoiseRun(drun, DenoiserCounts(drun))]
    \* line 138 writes into the array func_clean names
    /\ preproc_func' = IF clean_ref = "preproc_func" THEN func_clean'
                       ELSE preproc_func
    /\ drun' = drun + 1
    /\ UNCHANGED <<cfg, n_runs, n_conf, nonzero, pc, err, wstate, wres, order,
                   scored, r2s_list, opt, opt_hrf_idx, opt_local,
                   gvars, xvars, cleaned, clean_ref>>

\* lines 145-150: ddict['denoised_func'] = func_clean; return ddict
Finish ==
    /\ pc = "denoise" /\ drun = n_runs
    /\ pc' = "done"
    /\ UNCHANGED <<cfg, n_runs, n_conf, nonzero, err, wstate, wres, order,
                   scored, r2s_list, opt, opt_hrf_idx, opt_local, drun, func_clean,
                   gvars, xvars, cleaned, preproc_func, clean_ref>>

Next ==
    \/ \E run \in 0..(NRuns - 1) : run_parallel_within_run(run)
    \/ \E k \in 1..MaxComps : run_parallel_across_runs(k)
    \/ ParallelRaises
    \/ SelectWithinRun
    \/ SelectAcrossRuns
    \/ Denoise
    \/ Finish


Spec == Init /\ [][Next]_vars
\* ------------------------------------------------------ yield_glm_results
\* the column names of the model's designs that contain 'unmodstim'
\* (columns.str.contains('unmodstim'))
UnmodNames == {"b_unmodstim", "unmodstim"}

Column0(name) == [name |-> name, ops |-> <<>>]

\* the designs a caller passes: condition or trial columns in sorted order,
\* with or without the 'constant' column create_design_matrix puts last
Designs ==
    {<<Column0("a"), Column0("b")>>,
     <<Column0("a"), Column0("b"), Column0("constant")>>,
     <<Column0("a"), Column0("unmodstim")>>,
     <<Column0("a"), Column0("unmodstim"), Column0("constant")>>,
     <<Column0("a"), Column0("b_unmodstim")>>}

\* X.drop('constant', axis=1) when 'constant' in X.columns
RECURSIVE DropConstant(_)
DropConstant(X) ==
    IF X = <<>> THEN <<>>
    ELSE IF Head(X).name = "constant" THEN DropConstant(Tail(X))
    ELSE <<Head(X)>> \o DropConstant(Tail(X))

\* apply one operation to every column of a design
Apply(X, step) == [i \in DOMAIN X |-> [X[i] EXCEPT !.ops = @ \o <<step>>]]

\* hp_filter(X.to_numpy(), ..., standardize=False)
hp_filter(X) == Apply(X, [op |-> "hp", cols |-> {}])

\* custom_clean(X, Y, C, tr, ddict, cfg, high_pass, clean_Y, standardize)
custom_clean(X, Y, C, high_pass, clean_Y, standardize) ==
    LET X1 == DropConstant(X)
        X2 == IF high_pass THEN hp_filter(X1) ELSE X1
        X3 == IF C.isNone THEN X2
              ELSE [i \in DOMAIN X2 |->
                       [X2[i] EXCEPT !.ops = SignalClean(@, C, FALSE)]]
    IN [X |-> X3,
        Y |-> IF clean_Y THEN SignalClean(Y, C, standardize) ELSE Y,
        Yarg |-> Y]                  \* line 548 cleans Y.copy()

\* lines 501-506: when a column is named 'unmodstim', the columns whose name
\* does not contain 'unmodstim' are cleaned of the columns whose name does
Orthogonalize(X) ==
    IF \E i \in DOMAIN X : X[i].name = "unmodstim"
    THEN [i \in DOMAIN X |->
             IF X[i].name \in UnmodNames THEN X[i]
             ELSE [X[i] EXCEPT !.ops = @ \o <<[op |-> "orth", cols |-> {}]>>]]
    ELSE X

\* line 512, this_X['constant'] = 1: the column is overwritten where the
\* frame has one and appended as the last column where it has none
NoConstant(X) == X

SetConstant(X) ==
    IF \E i \in DOMAIN X : X[i].name = "constant"
    THEN [i \in DOMAIN X |->
             IF X[i].name = "constant" THEN Column0("constant") ELSE X[i]]
    ELSE X \o <<Column0("constant")>>

\* line 496, this_X = X.copy(): a frame that shares nothing with X
XAlias(X) == [shared |-> TRUE, cols |-> X]

XCopy(X) == [shared |-> FALSE, cols |-> X]

\* lines 487-513: the body of the loop for one value of this_n_comps, given
\* the generator's current Y: the group that is fitted and yielded, and the
\* caller's X and the array passed as Y as the iteration leaves them.
\* drop() at line 498 returns a new frame; without it every later write
\* (lines 503, 509, 512 and custom_clean's X.loc[:, :] = ...) goes to the
\* frame line 496 made.
GroupOrthLast(this_n_comps, X, Y) ==
    LET C == IF this_n_comps = 0 THEN NoConfounds
             ELSE Confounds(Leading(this_n_comps, g_nconf))
        cc == custom_clean(DropConstant(X), Y, C, TRUE, TRUE, FALSE)
    IN [k |-> this_n_comps,
        vox |-> {u \in Units : g_vox[u] /\ g_opt[u] = this_n_comps},
        X |-> SetConstant(Orthogonalize(cc.X)),
        Y |-> cc.Y,
        Xarg |-> X,
        Yarg |-> cc.Yarg]

Group(this_n_comps, X, Y) ==
    LET this_vox_idx == {u \in Units : g_vox[u] /\ g_opt[u] = this_n_comps}
        C == IF this_n_comps = 0 THEN NoConfounds
             ELSE Confounds(Leading(this_n_comps, g_nconf))
        copy == XCopy(X)                               \* line 496
        dropped == DropConstant(copy.cols)             \* lines 497-498
        in_place == copy.shared /\ dropped = copy.cols
        this_X == Orthogonalize(dropped)               \* lines 501-506
        cc == custom_clean(this_X, Y, C, TRUE, TRUE, FALSE)
        fitted == SetConstant(cc.X)                    \* line 512
    IN [k |-> this_n_comps,
        vox |-> this_vox_idx,
        X |-> fitted,
        Y |-> cc.Y,
        Xarg |-> IF in_place THEN fitted ELSE X,
        Yarg |-> cc.Yarg]

\* a call of yield_glm_results: the arguments, and the loop about to start
InitGLM ==
    /\ g_X \in Designs
    /\ g_nconf \in 1..MaxConf
    /\ g_opt \in [Units -> 0..g_nconf]
    /\ g_vox \in [Units -> BOOLEAN]
    /\ g_Yarg = Raw /\ g_Y = g_Yarg
    /\ g_ks = Unique(g_opt)
    /\ g_out = <<>>
    /\ cfg = [signalproc_type |-> "single-trial", n_comps |-> 1, hrf_model |-> "kay"]
    /\ n_runs = 1 /\ n_conf = 1
    /\ nonzero = [r \in 0..0 |-> [u \in Units |-> TRUE]]
    /\ pc = "glm" /\ err = "none"
    /\ wstate = <<>> /\ wres = <<>> /\ order = <<>> /\ scored = {}
    /\ cleaned = {} /\ preproc_func = <<>> /\ clean_ref = "none"
    /\ r2s_list = <<>> /\ opt = <<>> /\ opt_hrf_idx = <<>> /\ opt_local = <<>>
    /\ drun = 0 /\ func_clean = <<>>
    /\ OtherIdle /\ SkipIdle

\* one iteration of the loop of line 483, up to its yield
YieldGroup ==
    /\ pc = "glm" /\ g_ks # <<>>
    /\ LET g == Group(Head(g_ks), g_X, g_Y) IN
        /\ g_X' = g.Xarg
        \* the array passed as Y is the caller's in the first iteration only
        /\ g_Yarg' = IF g_out = <<>> THEN g.Yarg ELSE g_Yarg
        /\ g_Y' = g.Y
        /\ g_out' = Append(g_out, [k |-> g.k, vox |-> g.vox, X |-> g.X, Y |-> g.Y])
    /\ g_ks' = Tail(g_ks)
    /\ UNCHANGED <<g_nconf, g_opt, g_vox, nvars, xvars>>

\* the loop ends: the generator is exhausted
GeneratorReturn ==
    /\ pc = "glm" /\ g_ks = <<>>
    /\ pc' = "glm_done"
    /\ UNCHANGED <<cfg, n_runs, n_conf, nonzero, err, wstate, wres, order,
                   scored, r2s_list, opt, opt_hrf_idx, opt_local, drun,
                   func_clean, gvars, xvars, cleaned, preproc_func, clean_ref>>

NextGLM ==
    \/ YieldGroup
    \/ GeneratorReturn

SpecGLM == InitGLM /\ [][NextGLM]_vars

\* ================================================================ claims
\* the selection of run_noise_processing has been made and stored
Selected == pc \in {"denoise", "done"}

\* the R2 column of unit u in a grid (rows = candidates)
Column(grid, u) == [i \in DOMAIN grid |-> grid[i][u]]

\* the confound columns projected out of a time series
ConfRemoved(ts) == UNION {ts[i].cols : i \in DOMAIN ts}

Maximisers(r, u) ==
    {k \in n_comps : \A j \in n_comps : wres[r][j - 1][u] <= wres[r][k - 1][u]}

\* C2: a unit whose maximal R2 is non-negative and reached by several
\* candidate counts is given the smallest of them.
Thm_C2 ==
    Selected =>
        \A r \in Runs : \A u \in Units :
            (/\ Cardinality(Maximisers(r, u)) > 1
             /\ \E k \in Maximisers(r, u) : wres[r][k - 1][u] >= 0)
            => /\ opt[r][u] \in Maximisers(r, u)
               /\ \A k \in Maximisers(r, u) : opt[r][u] <= k

\* a unit with signal whose positive maximum is reached by k = 1 and the
\* largest k alike
Wit_C2 ==
    /\ Selected
    /\ \E r \in Runs : \E u \in Units :
          /\ nonzero[r][u]
          /\ {1, cfg.n_comps} \subseteq Maximisers(r, u) /\ cfg.n_comps > 1
          /\ wres[r][0][u] = 1
          /\ opt[r][u] = 1

\* the across-runs R2 of (hrf h, candidate k, unit u): worker k's row h
R2Across(h, k, u) == wres[k][h][u]

\* C3 (as claimed): in across-runs mode, once all workers returned, the
\* selector completes and stores for every unit the argmax over k of the max
\* over HRF, with an HRF reaching the overall maximum at that k, or k = 0 and
\* HRF 0 when the overall maximum is negative.
CX_C3 ==
    (~WithinRun /\ AllReturned /\ pc # "parallel") =>
        /\ err = "none"
        /\ Selected
        /\ \A u \in Units :
             LET best == CHOOSE m \in R2Vals :
                            /\ \E h \in Hrfs : \E k \in n_comps : R2Across(h, k, u) = m
                            /\ \A h \in Hrfs : \A k \in n_comps : R2Across(h, k, u) <= m
             IN IF best < 0
                THEN \A r \in Runs : opt[r][u] = 0 /\ opt_hrf_idx[u] = 0
                ELSE \A r \in Runs :
                        /\ opt[r][u] \in n_comps
                        /\ R2Across(opt_hrf_idx[u], opt[r][u], u) = best

\* C4 (as claimed): in per-run mode with more than one run, a unit with signal
\* of a denoised run r has had as many confound columns projected out as the
\* count selected for run r.
CX_C4 ==
    (WithinRun /\ n_runs > 1 /\ Selected) =>
        \A r \in Runs : \A u \in Units :
            (r < drun /\ nonzero[r][u]) =>
                Cardinality(ConfRemoved(func_clean[r][u])) = opt[r][u]

\* C5 (as claimed): when the Denoiser has finished run r, a unit with signal
\* and selected count k > 0 was projected once, against the leading k
\* columns, a unit with k = 0 or without signal against none, and every unit
\* was standardised last.
CX_C5 ==
    Selected =>
        \A r \in Runs : \A u \in Units :
            r < drun =>
                func_clean[r][u] =
                    (IF nonzero[r][u] /\ opt[r][u] > 0
                     THEN <<[op |-> "conf", cols |-> 1..opt[r][u]]>>
                     ELSE <<>>)
                    \o <<[op |-> "zscore", cols |-> {}]>>

\* C8 (as claimed): with more components requested than confound columns,
\* run_noise_processing ends in the ValueError of the component check, in
\* either mode, and no candidate k is scored with fewer than k columns.
CX_C8 ==
    cfg.n_comps > n_conf =>
        /\ \A s \in scored : s.cols >= s.k
        /\ pc \in {"failed", "denoise", "done"} => err = "ValueError"

\* C9 (as claimed): a worker that raises the component-count error has not
\* scored any candidate, nor has any other worker.
CX_C9 ==
    (\E w \in Workers : wstate[w] = "ValueError") => scored = {}

\* C10: the list Parallel returns exists only once every worker returned,
\* its position i holds the array of the worker launched for item i (run i,
\* candidate i + 1), and the stored counts of run r are those selected from
\* the array of run r's worker, in whatever order the workers ended; a step
\* taken while the workers run adds one worker's array and changes nothing
\* another worker returned or reads.
Inv_C10 ==
    /\ DOMAIN r2s_list # {} =>
          /\ AllReturned
          /\ DOMAIN r2s_list = 0..(Len(Items) - 1)
          /\ \A i \in DOMAIN r2s_list : r2s_list[i] = wres[Items[i + 1]]
    /\ Selected =>
          \A r \in Runs : \A u \in Units :
              LET col == Column(wres[r], u)
              IN opt[r][u] = IF \A i \in DOMAIN col : col[i] < 0 THEN 0
                             ELSE 1 + CHOOSE i \in DOMAIN col :
                                        /\ \A j \in DOMAIN col : col[j] <= col[i]
                                        /\ \A j \in DOMAIN col :
                                              col[j] = col[i] => i <= j

Step_C10 ==
    /\ \A w \in DOMAIN wres : w \in DOMAIN wres' /\ wres'[w] = wres[w]
    /\ Cardinality(DOMAIN wres') <= Cardinality(DOMAIN wres) + 1
    /\ (pc = "parallel" /\ pc' = "parallel") =>
          UNCHANGED <<cfg, n_runs, n_conf, nonzero, r2s_list, opt,
                      opt_hrf_idx, opt_local, func_clean>>
    /\ wres' # wres => pc = "parallel"

Pos(ops, op) ==
    IF \E i \in DOMAIN ops : ops[i].op = op
    THEN CHOOSE i \in DOMAIN ops : ops[i].op = op /\ \A j \in 1..(i - 1) : ops[j].op # op
    ELSE 0

\* C6: in every group yielded at noise level k, the fitted signal and every
\* non-intercept column of the fitted design have had exactly the leading k
\* confound columns removed (none for k = 0), the same set for both.
Thm_C6 ==
    \A n \in DOMAIN g_out :
        LET g == g_out[n] IN
        /\ ConfRemoved(g.Y) = 1..g.k
        /\ \A i \in DOMAIN g.X :
              g.X[i].name # "constant" => ConfRemoved(g.X[i].ops) = ConfRemoved(g.Y)

\* a group at k = 2 yielded after a group at k = 1: its signal was cleaned
\* twice, against 1 and then against 2 columns
Wit_C6 ==
    \E n \in DOMAIN g_out :
        /\ g_out[n].k = 2
        /\ Len(g_out[n].Y) = 2
        /\ g_out[n].Y[1].cols = {1}
        /\ g_out[n].vox # {}

\* C7: in every yielded group, a design column that was orthogonalised
\* against the unmodulated-stimulus regressor was orthogonalised before it
\* was high-pass filtered and before the confounds were removed from it, and
\* the design that was fitted had been high-pass filtered, and cleaned of
\* the k confounds when k > 0, after that.
Thm_C7 ==
    \A n \in DOMAIN g_out :
        LET g == g_out[n] IN
        \A i \in DOMAIN g.X :
            LET ops == g.X[i].ops IN
            g.X[i].name # "constant" =>
                /\ Pos(ops, "hp") > 0
                /\ g.k > 0 => Pos(ops, "conf") > Pos(ops, "hp")
                /\ g.k = 0 => Pos(ops, "conf") = 0
                /\ Pos(ops, "orth") > 0 =>
                      /\ Pos(ops, "orth") < Pos(ops, "hp")
                      /\ g.k > 0 => Pos(ops, "orth") < Pos(ops, "conf")
                /\ (g.X[i].name \notin UnmodNames
                    /\ \E j \in DOMAIN g.X : g.X[j].name = "unmodstim")
                   => Pos(ops, "orth") = 1

\* a yielded group at k > 0 whose design has a column orthogonalised, then
\* filtered, then cleaned of the confounds
Wit_C7 ==
    \E n \in DOMAIN g_out : \E i \in DOMAIN g_out[n].X :
        /\ g_out[n].k > 0
        /\ Len(g_out[n].X[i].ops) = 3
        /\ g_out[n].X[i].ops[1].op = "orth"
        /\ g_out[n].X[i].ops[3].op = "conf"

\* ---- run_noise_processing, continued

\* C11: once a call of the scorer has raised or a worker has ended in an
\* exception, no optimal counts are ever selected or stored and nothing is
\* denoised; when run_noise_processing has ended, it ended in the exception
\* of a worker that failed.
Thm_C11 ==
    (\/ \E s \in scored : s.raised
     \/ \E w \in Workers : wstate[w] \notin {"running", "done"}) =>
        /\ pc \in {"parallel", "failed"}
        /\ DOMAIN opt = {} /\ DOMAIN opt_local = {} /\ DOMAIN r2s_list = {}
        /\ clean_ref = "none"
        /\ \A r \in Runs : \A u \in Units : func_clean[r][u] = Raw
        /\ pc = "failed" =>
              \E w \in Workers : wstate[w] \notin {"running", "done"}
                                 /\ err = wstate[w]

\* the scoring of one worker raised after another worker had returned its
\* array, and the failure reached the caller
Wit_C11 ==
    /\ pc = "failed" /\ err = "FitError"
    /\ \E s \in scored : s.raised
    /\ \E w \in Workers : wstate[w] = "done" /\ w \in DOMAIN wres

\* C12: ddict['preproc_func'] holds its initial content in every state, the
\* shape of the confounds, the run index and the signal's zero pattern never
\* change, and the array returned as denoised_func is another array than
\* preproc_func.
Inv_C12 ==
    /\ preproc_func = [r \in Runs |-> [u \in Units |-> Raw]]
    /\ Selected => clean_ref = "copy"

Step_C12 == n_conf' = n_conf /\ n_runs' = n_runs /\ nonzero' = nonzero

Thm_C12 == []Inv_C12 /\ [][Step_C12]_vars

\* run_noise_processing returned a denoised signal that differs from the
\* input signal
Wit_C12 ==
    /\ pc = "done" /\ clean_ref = "copy"
    /\ \E r \in Runs : \E u \in Units :
          /\ func_clean[r][u] # preproc_func[r][u]
          /\ ConfRemoved(func_clean[r][u]) # {}

\* the unit has signal in some run the worker of call s scores
HasSignal(s, u) ==
    IF WithinRun THEN nonzero[s.w][u] ELSE \E r \in Runs : nonzero[r][u]

\* C15 (as claimed): in both modes no unit whose signal is all zero is
\* passed to the scorer, and such a unit has R2 = 0 in every array a worker
\* returned.
CX_C15 ==
    /\ \A s \in scored : \A u \in s.units : HasSignal(s, u)
    /\ \A w \in DOMAIN wres : \A i \in DOMAIN wres[w] : \A u \in Units :
          ~HasSignal([w |-> w], u) => wres[w][i][u] = 0

\* C20 (as claimed): whenever an across-runs worker cleans the design of a
\* run, the confounds it passes hold the rows of that run and no others.
CX_C20 ==
    \A c \in cleaned : c.c_runs = c.x_runs

\* ---- yield_glm_results, continued

\* number of operations of one kind applied to a series
Count(ops, op) == Cardinality({i \in DOMAIN ops : ops[i].op = op})

Names(X) == {X[i].name : i \in DOMAIN X}

\* C13: the caller's X, Y, confounds and optimal counts are never modified
\* by yield_glm_results, and the design of every group is made from the
\* caller's original X: its non-intercept columns are those of X, each
\* high-pass filtered once and cleaned of confounds once for k > 0 and not
\* at all for k = 0, whatever groups were yielded before.
Inv_C13 ==
    /\ g_X \in Designs
    /\ g_Yarg = Raw
    /\ \A n \in DOMAIN g_out :
          LET g == g_out[n] IN
          /\ Names(g.X) \ {"constant"} = Names(g_X) \ {"constant"}
          /\ \A i \in DOMAIN g.X :
                g.X[i].name # "constant" =>
                    /\ Count(g.X[i].ops, "hp") = 1
                    /\ Count(g.X[i].ops, "orth") <= 1
                    /\ Count(g.X[i].ops, "conf") = IF g.k = 0 THEN 0 ELSE 1

Step_C13 ==
    /\ g_X' = g_X /\ g_Yarg' = g_Yarg
    /\ g_nconf' = g_nconf /\ g_opt' = g_opt /\ g_vox' = g_vox

Thm_C13 == []Inv_C13 /\ [][Step_C13]_vars

\* a second group was yielded from a design that has no 'constant' column
\* (no drop() that would have made a new frame), after the generator's Y
\* had been cleaned for the first group
Wit_C13 ==
    /\ Len(g_out) = 2
    /\ "constant" \notin Names(g_X)
    /\ g_Y # g_Yarg
    /\ g_out[2].X # g_out[1].X

\* C14: every yielded design has exactly one 'constant' column, it is the
\* last column, and it is the column of ones: no filter, orthogonalisation
\* or confound removal was applied to it.
Thm_C14 ==
    \A n \in DOMAIN g_out :
        LET X == g_out[n].X IN
        /\ Len(X) >= 1
        /\ X[Len(X)] = Column0("constant")
        /\ \A i \in 1..(Len(X) - 1) : X[i].name # "constant"

\* groups yielded from a design with a 'constant' column and an
\* unmodulated-stimulus regressor, and with confounds to remove
Wit_C14 ==
    /\ g_out # <<>>
    /\ {"constant", "unmodstim"} \subseteq Names(g_X)
    /\ \E n \in DOMAIN g_out : g_out[n].k > 0

\* C19 (as claimed): in every yielded design, when some column's name
\* contains 'unmodstim', every other non-intercept column was
\* orthogonalised and the marked columns were not; when no column is
\* marked, no column was orthogonalised.
CX_C19 ==
    \A n \in DOMAIN g_out :
        LET X == g_out[n].X
            marked == \E i \in DOMAIN X : X[i].name \in UnmodNames
        IN \A i \in DOMAIN X :
              Count(X[i].ops, "orth") =
                 IF marked /\ X[i].name \notin UnmodNames \cup {"constant"}
                 THEN 1 ELSE 0

\* ------------------------------------------------ create_design_matrix
\* The condition labels of the events, in alphabetical order.
TrialTypes == <<"a", "b", "c">>

\* position of a label in the alphabetical order
Rank(label) == CHOOSE i \in DOMAIN TrialTypes : TrialTypes[i] = label

\* the labels of S, ascending
RECURSIVE SortedLabels(_)
SortedLabels(S) ==
    IF S = {} THEN <<>>
    ELSE LET m == CHOOSE x \in S : \A y \in S : Rank(x) <= Rank(y)
         IN <<m>> \o SortedLabels(S \ {m})

\* uniq_trial_types = np.unique(trial_type): ascending (and, for
\* comparison, the same labels descending)
UniqueTrialTypesDescending(trial_type) ==
    LET up == SortedLabels({trial_type[i] : i \in DOMAIN trial_type})
    IN [i \in 1..Len(up) |-> up[Len(up) + 1 - i]]

UniqueTrialTypes(trial_type) ==
    SortedLabels({trial_type[i] : i \in DOMAIN trial_type})

\* dm['constant'] = 1 on a frame with the given column names
SetConstantColumn(columns) ==
    IF \E i \in DOMAIN columns : columns[i] = "constant" THEN columns
    ELSE Append(columns, "constant")

\* lines 411-440: the design matrix of one HRF
DesignMatrix(hrf_idx) ==
    [rows |-> d_args.n_frames,
     columns |-> SetConstantColumn(UniqueTrialTypes(d_args.trial_type)),
     hrf |-> hrf_idx]

\* the events of a run: at least one, each with a condition label
EventLabels ==
    UNION {[1..n -> {TrialTypes[i] : i \in DOMAIN TrialTypes}] : n \in 1..MaxTrials}

\* hrf_idx is None (-1 here) or an index into the library
InitDM ==
    /\ d_args \in [trial_type : EventLabels,
                   n_frames : 1..MaxFrames,
                   hrf_model : {"kay", "glover"},
                   hrf_idx : -1..(NHrf - 1)]
    /\ d_pc = "call" /\ d_iter = <<>> /\ d_dms = <<>> /\ d_ret = <<>>
    /\ cfg = [signalproc_type |-> "single-trial", n_comps |-> 1, hrf_model |-> "kay"]
    /\ n_runs = 1 /\ n_conf = 1
    /\ nonzero = [r \in 0..0 |-> [u \in Units |-> TRUE]]
    /\ pc = "idle" /\ err = "none"
    /\ wstate = <<>> /\ wres = <<>> /\ order = <<>> /\ scored = {}
    /\ cleaned = {} /\ preproc_func = <<>> /\ clean_ref = "none"
    /\ r2s_list = <<>> /\ opt = <<>> /\ opt_hrf_idx = <<>> /\ opt_local = <<>>
    /\ drun = 0 /\ func_clean = <<>>
    /\ GlmIdle /\ ParamIdle /\ FileIdle /\ SkipIdle /\ ArgmaxIdle

\* lines 391-395: any other hrf_model is Nilearn's design matrix
NilearnDesign ==
    /\ d_pc = "call" /\ d_args.hrf_model # "kay"
    /\ d_ret' = [kind |-> "nilearn"]
    /\ d_pc' = "returned"
    /\ UNCHANGED <<d_args, d_iter, d_dms, nvars, gvars, pvars, fvars, svars, avars>>

\* lines 397-403: to_iter
ToIter ==
    /\ d_pc = "call" /\ d_args.hrf_model = "kay"
    /\ d_iter' = IF d_args.hrf_idx = -1 THEN [i \in 1..NHrf |-> i - 1]
                 ELSE <<d_args.hrf_idx>>
    /\ d_pc' = "loop"
    /\ UNCHANGED <<d_args, d_dms, d_ret, nvars, gvars, pvars, fvars, svars, avars>>

\* lines 404-440: one iteration of the loop over to_iter
AppendDesign ==
    /\ d_pc = "loop" /\ d_iter # <<>>
    /\ d_dms' = Append(d_dms, DesignMatrix(Head(d_iter)))
    /\ d_iter' = Tail(d_iter)
    /\ UNCHANGED <<d_args, d_pc, d_ret, nvars, gvars, pvars, fvars, svars, avars>>

\* lines 442-446: a list of one matrix is returned as that matrix
ReturnDesigns ==
    /\ d_pc = "loop" /\ d_iter = <<>>
    /\ d_ret' = IF Len(d_dms) = 1 THEN [kind |-> "single", dm |-> d_dms[1]]
                ELSE [kind |-> "list", dms |-> d_dms]
    /\ d_pc' = "returned"
    /\ UNCHANGED <<d_args, d_iter, d_dms, nvars, gvars, pvars, fvars, svars, avars>>

NextDM ==
    \/ NilearnDesign
    \/ ToIter
    \/ AppendDesign
    \/ ReturnDesigns

SpecDM == InitDM /\ [][NextDM]_vars

\* the columns are in strictly ascending alphabetical order
Ascending(columns) ==
    \A i, j \in DOMAIN columns : i < j => Rank(columns[i]) < Rank(columns[j])

\* a matrix of the HRF-library mode as C16 describes it
AsClaimed(dm) ==
    LET n == Len(dm.columns) IN
    /\ dm.rows = d_args.n_frames
    /\ n >= 2
    /\ dm.columns[n] = "constant"
    /\ {dm.columns[i] : i \in 1..(n - 1)}
          = {d_args.trial_type[i] : i \in DOMAIN d_args.trial_type}
    /\ Ascending(SubSeq(dm.columns, 1, n - 1))

ResultValue(lab, pos) == [lab |-> lab, pos |-> pos]

\* an entry of np.zeros(...)
Zero == [lab |-> 0, pos |-> 0]

\* labels == lab: the units of the label (and, for comparison, a mask that
\* is True for every unit)
LabelMaskAll(labels, lab) == DOMAIN labels

LabelMask(labels, lab) == {u \in DOMAIN labels : labels[u] = lab}

\* data[..., mask] = values: the i-th value goes to the i-th unit of the mask
Assign(val, mask, lab) ==
    [u \in DOMAIN val |->
        IF u \in mask
        THEN ResultValue(lab, Cardinality({v \in mask : v <= u}))
        ELSE val[u]]

InitParam ==
    /\ p_args \in [labels : [Units -> 1..NLabels],
                   dm_shape : (1..MaxFrames) \X (1..MaxPred),
                   time_series : BOOLEAN,
                   predictors : BOOLEAN]
    /\ p_pc = "call" /\ p_err = "none" /\ p_labs = <<>>
    /\ p_data = <<>> /\ p_reads = {}
    /\ cfg = [signalproc_type |-> "single-trial", n_comps |-> 1, hrf_model |-> "kay"]
    /\ n_runs = 1 /\ n_conf = 1
    /\ nonzero = [r \in 0..0 |-> [u \in Units |-> TRUE]]
    /\ pc = "idle" /\ err = "none"
    /\ wstate = <<>> /\ wres = <<>> /\ order = <<>> /\ scored = {}
    /\ cleaned = {} /\ preproc_func = <<>> /\ clean_ref = "none"
    /\ r2s_list = <<>> /\ opt = <<>> /\ opt_hrf_idx = <<>> /\ opt_local = <<>>
    /\ drun = 0 /\ func_clean = <<>>
    /\ GlmIdle /\ DmIdle /\ FileIdle /\ SkipIdle /\ ArgmaxIdle

\* lines 365-366
ParamRaise ==
    /\ p_pc = "call" /\ p_args.predictors /\ p_args.time_series
    /\ p_err' = "ValueError"
    /\ p_pc' = "raised"
    /\ UNCHANGED <<p_args, p_labs, p_data, p_reads, nvars, gvars, dvars, fvars, svars, avars>>

\* lines 368-374: the zeros, and np.unique(labels) of line 377
ParamAllocate ==
    /\ p_pc = "call" /\ ~(p_args.predictors /\ p_args.time_series)
    /\ p_data' =
          [shape |-> IF p_args.time_series
                     THEN <<p_args.dm_shape[1], NUnits>>
                     ELSE IF p_args.predictors
                     THEN <<p_args.dm_shape[2], NUnits>>
                     ELSE <<NUnits>>,
           val |-> [u \in Units |-> Zero]]
    /\ p_labs' = Unique(p_args.labels)
    /\ p_pc' = "loop"
    /\ UNCHANGED <<p_args, p_err, p_reads, nvars, gvars, dvars, fvars, svars, avars>>

\* lines 377-378: one iteration of the loop
FillLabel ==
    /\ p_pc = "loop" /\ p_labs # <<>>
    /\ LET lab == Head(p_labs) IN
        /\ p_reads' = p_reads \cup {lab}
        /\ p_data' = [p_data EXCEPT
                         !.val = Assign(@, LabelMask(p_args.labels, lab), lab)]
    /\ p_labs' = Tail(p_labs)
    /\ UNCHANGED <<p_args, p_pc, p_err, nvars, gvars, dvars, fvars, svars, avars>>

\* line 380
ParamReturn ==
    /\ p_pc = "loop" /\ p_labs = <<>>
    /\ p_pc' = "returned"
    /\ UNCHANGED <<p_args, p_err, p_labs, p_data, p_reads, nvars, gvars, dvars, fvars, svars, avars>>

NextParam ==
    \/ ParamRaise
    \/ ParamAllocate
    \/ FillLabel
    \/ ParamReturn

SpecParam == InitParam /\ [][NextParam]_vars

\* C17: with both flags the call raises ValueError, and has then read no
\* result and allocated nothing; with any other flags it never raises and
\* returns an array with one column per unit (dm.shape[0] rows for
\* time_series, dm.shape[1] for predictors, none otherwise) in which the
\* entry of every unit is the value of that unit in the result object of the
\* unit's label.
Thm_C17 ==
    /\ (p_args.predictors /\ p_args.time_series /\ p_pc # "call") =>
          /\ p_pc = "raised" /\ p_err = "ValueError"
          /\ p_data = <<>> /\ p_reads = {}
    /\ ~(p_args.predictors /\ p_args.time_series) =>
          /\ p_err = "none" /\ p_pc # "raised"
          /\ p_pc = "returned" =>
                /\ p_data.shape[Len(p_data.shape)] = NUnits
                /\ Len(p_data.shape) = IF p_args.time_series \/ p_args.predictors
                                       THEN 2 ELSE 1
                /\ p_args.time_series => p_data.shape[1] = p_args.dm_shape[1]
                /\ p_args.predictors => p_data.shape[1] = p_args.dm_shape[2]
                /\ \A u \in Units :
                      LET lab == p_args.labels[u] IN
                      /\ lab \in p_reads
                      /\ p_data.val[u] =
                            ResultValue(lab, Cardinality({v \in Units :
                                v <= u /\ p_args.labels[v] = lab}))

\* an array of predictors was returned for units of two labels, for a design
\* that has another number of rows than columns
Wit_C17 ==
    /\ p_pc = "returned" /\ p_args.predictors
    /\ p_args.dm_shape[1] # p_args.dm_shape[2]
    /\ Cardinality(p_reads) = 2

\* ---------------------------------------------- get_file_from_substring
\* A string is modelled by the set of tags (substrings of interest) it
\* contains: `t in f` is t \in f.
Tags == {"a", "b", "x"}

FilterTags == {"a", "b"}

\* the order of sorted() on file names
TagWeight(t) == IF t = "a" THEN 1 ELSE IF t = "b" THEN 2 ELSE 4

RECURSIVE NameRank(_)
NameRank(name) ==
    IF name = {} THEN 0
    ELSE LET t == CHOOSE x \in name : TRUE
         IN TagWeight(t) + NameRank(name \ {t})

\* sorted(os.listdir(path))
RECURSIVE SortedNames(_)
SortedNames(S) ==
    IF S = {} THEN <<>>
    ELSE LET m == CHOOSE x \in S : \A y \in S : NameRank(x) <= NameRank(y)
         IN <<m>> \o SortedNames(S \ {m})

\* op.join(path, fname): contains what the directory or the name contains
Join(dir, fname) == dir \cup fname

\* lines 708-709: a filter given as a string becomes a list of one
FiltList(filt) == filt.val

\* lines 713-717: the files looked through
FilesInDirectory ==
    IF f_args.is_list THEN f_args.files
    ELSE SortedNames({f_args.files[i] : i \in DOMAIN f_args.files})

\* lines 722-730: the indices of the files whose name contains every filter
FullMatchIdc ==
    LET files == FilesInDirectory
        filt == FiltList(f_args.filt)
    IN {ix \in DOMAIN files : \A i \in DOMAIN filt : filt[i] \in files[ix]}

\* the matching files in the order of the listing, as the paths returned
MatchList ==
    LET files == FilesInDirectory
        idc == SortedSeq(FullMatchIdc)
    IN [n \in DOMAIN idc |->
           IF f_args.is_list THEN files[idc[n]]
           ELSE Join(f_args.dir, files[idc[n]])]

Keep(seq, t) == SelectSeq(seq, LAMBDA f : t \notin f)

NotFound ==
    IF f_args.return_msg = "error"
    THEN [kind |-> "FileNotFoundError", val |-> <<>>]
    ELSE [kind |-> "None", val |-> <<>>]

Filters ==
    {[is_str |-> TRUE, val |-> <<t>>] : t \in FilterTags}
    \cup {[is_str |-> FALSE, val |-> q] :
             q \in {<<"a">>, <<"b">>, <<"a", "b">>, <<"b", "a">>}}

FileLists == UNION {[1..n -> SUBSET Tags] : n \in 0..MaxFiles}

\* a directory lists every name once
InitFile ==
    /\ f_args \in [filt : Filters,
                   is_list : BOOLEAN,
                   dir : {{}, {"x"}},
                   files : FileLists,
                   return_msg : {"error", "None"},
                   exclude : {"None", "x"}]
    /\ f_args.is_list => f_args.dir = {}
    /\ ~f_args.is_list =>
          \A i, j \in DOMAIN f_args.files :
              i # j => f_args.files[i] # f_args.files[j]
    /\ f_pc = "call" /\ f_ret = <<>>
    /\ cfg = [signalproc_type |-> "single-trial", n_comps |-> 1, hrf_model |-> "kay"]
    /\ n_runs = 1 /\ n_conf = 1
    /\ nonzero = [r \in 0..0 |-> [u \in Units |-> TRUE]]
    /\ pc = "idle" /\ err = "none"
    /\ wstate = <<>> /\ wres = <<>> /\ order = <<>> /\ scored = {}
    /\ cleaned = {} /\ preproc_func = <<>> /\ clean_ref = "none"
    /\ r2s_list = <<>> /\ opt = <<>> /\ opt_hrf_idx = <<>> /\ opt_local = <<>>
    /\ drun = 0 /\ func_clean = <<>>
    /\ GlmIdle /\ DmIdle /\ ParamIdle /\ SkipIdle /\ ArgmaxIdle

\* lines 730-745: exactly one file matches
SingleMatch ==
    /\ f_pc = "call" /\ Cardinality(FullMatchIdc) = 1
    /\ LET fname == FilesInDirectory[CHOOSE ix \in FullMatchIdc : TRUE]
           f == Join(f_args.dir, fname)
       IN f_ret' = IF f_args.is_list THEN [kind |-> "str", val |-> <<fname>>]
                   ELSE IF f_args.exclude # "None" /\ f_args.exclude \in f
                   THEN NotFound
                   ELSE [kind |-> "str", val |-> <<f>>]
    /\ f_pc' = "returned"
    /\ UNCHANGED <<f_args, nvars, gvars, dvars, pvars, svars, avars>>

\* lines 747-758: several files match
MultipleMatches ==
    /\ f_pc = "call" /\ Cardinality(FullMatchIdc) > 1
    /\ f_ret' = [kind |-> "list",
                 val |-> IF f_args.exclude # "None"
                         THEN Keep(MatchList, f_args.exclude)
                         ELSE MatchList]
    /\ f_pc' = "returned"
    /\ UNCHANGED <<f_args, nvars, gvars, dvars, pvars, svars, avars>>

\* lines 760-764: no file matches
NoMatch ==
    /\ f_pc = "call" /\ FullMatchIdc = {}
    /\ f_ret' = NotFound
    /\ f_pc' = "returned"
    /\ UNCHANGED <<f_args, nvars, gvars, dvars, pvars, svars, avars>>

NextFile ==
    \/ SingleMatch
    \/ MultipleMatches
    \/ NoMatch

SpecFile == InitFile /\ [][NextFile]_vars

\* the files of the call that contain every filter and, when exclude is
\* given, whose path does not contain it
Selectable ==
    LET files == f_args.files
        filt == FiltList(f_args.filt)
        PathOf(i) == IF f_args.is_list THEN files[i]
                     ELSE Join(f_args.dir, files[i])
    IN {PathOf(i) : i \in {j \in DOMAIN files :
            /\ \A n \in DOMAIN filt : filt[n] \in files[j]
            /\ f_args.exclude # "None" => f_args.exclude \notin PathOf(j)}}

\* C18 (as claimed): every file returned contains every filter in its name
\* and, when exclude is given, not the exclude string in its path; when no
\* file is selected the call raises FileNotFoundError for
\* return_msg = 'error' and returns None otherwise.
CX_C18 ==
    f_pc = "returned" =>
        /\ \A n \in DOMAIN f_ret.val :
              /\ f_ret.val[n] \in Selectable
              /\ f_args.exclude # "None" => f_args.exclude \notin f_ret.val[n]
        /\ Selectable = {} =>
              f_ret.kind = IF f_args.return_msg = "error"
                           THEN "FileNotFoundError" ELSE "None"

\* ------------------------------- run_noise_processing, skip_noiseproc set
\* The run indices of a signal matrix: the runs 0..n-1 in order, each with
\* one to MaxTime timepoints.
RunIndexes ==
    UNION {{q \in [1..len -> 0..(n - 1)] :
               /\ \A t \in 1..(len - 1) : q[t] <= q[t + 1]
               /\ \A r \in 0..(n - 1) :
                     Cardinality({t \in 1..len : q[t] = r}) \in 1..MaxTime} :
           n \in 1..NRuns, len \in 1..(NRuns * MaxTime)}

\* np.unique(ddict['run_idx']).size
NUniqueRuns(idx) == Cardinality({idx[t] : t \in DOMAIN idx})

\* len(ddict['preproc_func']): the first dimension of the timepoints x units
\* matrix
LenPreprocFunc == Len(run_idx)

InitSkip ==
    /\ cfg \in [signalproc_type : {"single-trial", "glmdenoise"},
                n_comps : 1..MaxComps,
                hrf_model : {"kay", "glover"},
                skip_noiseproc : {TRUE}]
    /\ run_idx \in RunIndexes
    /\ n_runs = NUniqueRuns(run_idx)
    /\ n_conf \in 1..MaxConf
    /\ nonzero \in [0..(n_runs - 1) -> [Units -> BOOLEAN]]
    /\ pc = "entry" /\ err = "none"
    /\ wstate = <<>> /\ wres = <<>> /\ order = <<>> /\ scored = {}
    /\ cleaned = {}
    /\ preproc_func = [r \in 0..(n_runs - 1) |-> [u \in Units |-> Raw]]
    /\ clean_ref = "none"
    /\ r2s_list = <<>> /\ opt = <<>> /\ opt_hrf_idx = <<>> /\ opt_local = <<>>
    /\ drun = 0 /\ func_clean = <<>>
    /\ GlmIdle /\ OtherIdle

\* lines 29-35: denoised_func is bound to the array preproc_func, and
\* opt_n_comps is np.zeros((n_runs, K)) with n_runs = len(preproc_func)
SkipNoiseProc ==
    /\ pc = "entry" /\ cfg.skip_noiseproc
    /\ clean_ref' = "preproc_func"
    /\ func_clean' = preproc_func
    /\ opt' = [row \in 0..(LenPreprocFunc - 1) |-> [u \in Units |-> 0]]
    /\ pc' = "done"
    /\ UNCHANGED <<cfg, n_runs, n_conf, nonzero, err, wstate, wres, order,
                   scored, cleaned, preproc_func, r2s_list, opt_hrf_idx,
                   opt_local, drun, gvars, xvars>>

NextSkip == SkipNoiseProc

SpecSkip == InitSkip /\ [][NextSkip]_vars

\* C21 (as claimed): after the skipped call nothing was scored or cleaned,
\* denoised_func equals preproc_func, and opt_n_comps is all zero with one
\* row per run and one column per unit.
CX_C21 ==
    pc = "done" =>
        /\ scored = {} /\ cleaned = {} /\ DOMAIN wres = {}
        /\ func_clean = preproc_func
        /\ DOMAIN opt = Runs
        /\ \A r \in DOMAIN opt :
              DOMAIN opt[r] = Units /\ \A u \in Units : opt[r][u] = 0

\* --------------------------------------------------- argmax_regularized
\* Scores in hundredths, so that the cutoff is computed without rounding:
\* data >= maxx * (1 - percent / 100.) is 100 * data >= maxx * (100 - percent).
Scores == {-100, -95, -20, 0, 94, 95, 100}

Percents == {0, 5}

\* one column of data along the axis: rows 0..n-1
Columns == UNION {[0..(n - 1) -> Scores] : n \in 1..MaxRows}

\* lines 192-201 for one column
argmax_regularized(data, percent) ==
    LET maxx == ColMax(data)                                \* line 193
        reached == [i \in DOMAIN data |->                   \* data >= cutoff
                       IF 100 * data[i] >= maxx * (100 - percent)
                       THEN 1 ELSE 0]
    IN Argmax(reached)                                      \* line 201

InitArgmax ==
    /\ a_args \in [data : Columns, percent : Percents]
    /\ a_pc = "call" /\ a_ret = -1
    /\ cfg = [signalproc_type |-> "single-trial", n_comps |-> 1, hrf_model |-> "kay"]
    /\ n_runs = 1 /\ n_conf = 1
    /\ nonzero = [r \in 0..0 |-> [u \in Units |-> TRUE]]
    /\ pc = "idle" /\ err = "none"
    /\ wstate = <<>> /\ wres = <<>> /\ order = <<>> /\ scored = {}
    /\ cleaned = {} /\ preproc_func = <<>> /\ clean_ref = "none"
    /\ r2s_list = <<>> /\ opt = <<>> /\ opt_hrf_idx = <<>> /\ opt_local = <<>>
    /\ drun = 0 /\ func_clean = <<>>
    /\ GlmIdle /\ DmIdle /\ ParamIdle /\ FileIdle /\ SkipIdle

ArgmaxRegularized ==
    /\ a_pc = "call"
    /\ a_ret' = argmax_regularized(a_args.data, a_args.percent)
    /\ a_pc' = "returned"
    /\ UNCHANGED <<a_args, nvars, gvars, dvars, pvars, fvars, svars>>

NextArgmax == ArgmaxRegularized

SpecArgmax == InitArgmax /\ [][NextArgmax]_vars

Abs(x) == IF x < 0 THEN -x ELSE x

\* the value at row i deviates from the column maximum by at most `percent`
\* percent of the magnitude of the maximum
WithinPercent(data, percent, i) ==
    100 * Abs(ColMax(data) - data[i]) <= percent * Abs(ColMax(data))

\* C22 (as claimed): for every column, whatever the sign of its maximum,
\* the index returned is the smallest row whose value is within `percent`
\* percent of the maximum, and it is not larger than the exact argmax.
CX_C22 ==
    a_pc = "returned" =>
        /\ a_ret \in DOMAIN a_args.data
        /\ WithinPercent(a_args.data, a_args.percent, a_ret)
        /\ \A j \in DOMAIN a_args.data :
              j < a_ret => ~WithinPercent(a_args.data, a_args.percent, j)
        /\ a_ret <= Argmax(a_args.data)
====
